---------------------------- MODULE Spec2Model ----------------------------
(***************************************************************************)
(* Model of the snowglobe particle sandbox: the Verlet solver of           *)
(* src/src/verlet_object.rs driven by the frame loop of src/src/main.rs.   *)
(*                                                                         *)
(* Numbers.  The program computes in f32.  Here a finite f32 is an integer *)
(* (lengths in pixels, time in frame periods of 1/60 s); a product or a    *)
(* quotient that is not an integer is rounded toward zero.  NaN is kept    *)
(* apart: a particle whose position_current is NaN carries nan = TRUE.     *)
(* Both components of a position become NaN together (0/0 in a             *)
(* normalisation), every later sum, product and clamp leaves them NaN and  *)
(* every comparison with them is false, so the flag is all that is needed. *)
(* position_old is read only together with position_current, so it is NaN *)
(* to every reader from then on; the coordinates of a NaN particle are     *)
(* kept at 0.                                                              *)
(* The display colour (col) feeds nothing back and is left out.            *)
(***************************************************************************)
EXTENDS Integers, Sequences, FiniteSets

(***************************************************************************)
(* Bounds of the model.                                                    *)
(***************************************************************************)
MaxParticles == 2      \* particles in the store, frame-loop specifications
MaxSubsteps  == 2      \* largest --substeps value drawn
MaxCoord     == 3      \* host operations keep |coordinate| within this
MaxSpeed     == 1      \* host operations keep |current - old| within this
MaxFallOff   == 100    \* |fall_off| is kept within this
PassParticles == 2     \* particles in the store, collision-pass specification
PassCoord    == 4      \* largest coordinate drawn for a collision pass

(***************************************************************************)
(* Program constants.                                                      *)
(***************************************************************************)
WIDTH  == 800          \* main.rs: const WIDTH
HEIGHT == 800          \* main.rs: const HEIGHT
FallOffInit == 100     \* main.rs: let mut fall_off = 100.0
ScrollGain == 5        \* main.rs: fall_off += 5.0 * scroll
BurstCount == 10       \* main.rs: 10 particles per frame when fall_off < 0
RestitutionNum == 3    \* verlet_object.rs: restitution = 0.3 = 3/10
RestitutionDen == 10
Friction == 1          \* verlet_object.rs: friction = 1.0
FrameDt == 1           \* main.rs: dt = 1.0/60.0, one frame period

(***************************************************************************)
(* Arithmetic helpers.                                                     *)
(***************************************************************************)
Abs(a) == IF a < 0 THEN -a ELSE a

\* a / b for b > 0, rounded toward zero
DivZ(a, b) == IF a >= 0 THEN a \div b ELSE -((-a) \div b)

\* cgmath InnerSpace::magnitude of the vector (dx, dy): the floor of
\* sqrt(dx^2 + dy^2), which is at most |dx| + |dy|
Magnitude(dx, dy) ==
    CHOOSE r \in 0..(Abs(dx) + Abs(dy)) :
        r * r <= dx * dx + dy * dy /\ (r + 1) * (r + 1) > dx * dx + dy * dy

\* the elements of a finite set of integers as an ascending sequence
RECURSIVE SortedSeq(_)
SortedSeq(S) ==
    IF S = {} THEN <<>>
    ELSE LET m == CHOOSE a \in S : \A b \in S : a <= b
         IN  <<m>> \o SortedSeq(S \ {m})

\* all orderings of a finite set, as sequences
RECURSIVE Orderings(_)
Orderings(S) ==
    IF S = {} THEN {<<>>}
    ELSE UNION {{<<a>> \o t : t \in Orderings(S \ {a})} : a \in S}

\* concatenation of a sequence of sequences
RECURSIVE Flatten(_)
Flatten(ss) == IF ss = <<>> THEN <<>> ELSE Head(ss) \o Flatten(Tail(ss))

(***************************************************************************)
(* VerletObject.  The store is a Vec indexed from 0: a function on 0..n-1. *)
(***************************************************************************)
NewObject(px, py, rad) ==
    [x |-> px, y |-> py, ox |-> px, oy |-> py, ax |-> 0, ay |-> 0,
     r |-> rad, nan |-> FALSE]

StoreLen(ps) == Cardinality(DOMAIN ps)

Push(ps, p) ==
    [i \in 0..StoreLen(ps) |-> IF i < StoreLen(ps) THEN ps[i] ELSE p]

\* position_current and position_old become NaN
NaNObject(p) == [p EXCEPT !.x = 0, !.y = 0, !.ox = 0, !.oy = 0, !.nan = TRUE]

\* VerletObject::accelerate
Accelerate(p, gx, gy) == [p EXCEPT !.ax = @ + gx, !.ay = @ + gy]

\* acceleration * dt * dt with dt = frame dt / substeps (update passes the quotient)
AccelStepNoDt(a, dt, sub) == a
AccelStep(a, dt, sub) == DivZ(a * dt * dt, sub * sub)

\* VerletObject::update_position
UpdatePositionNoReset(p, dt, sub) ==
    IF p.nan THEN p
    ELSE [p EXCEPT !.ox = p.x, !.oy = p.y,
                   !.x = p.x + (p.x - p.ox) + AccelStep(p.ax, dt, sub),
                   !.y = p.y + (p.y - p.oy) + AccelStep(p.ay, dt, sub)]
UpdatePosition(p, dt, sub) ==
    IF p.nan THEN [p EXCEPT !.ax = 0, !.ay = 0]
    ELSE [p EXCEPT !.ox = p.x, !.oy = p.y,
                   !.x = p.x + (p.x - p.ox) + AccelStep(p.ax, dt, sub),
                   !.y = p.y + (p.y - p.oy) + AccelStep(p.ay, dt, sub),
                   !.ax = 0, !.ay = 0]

(***************************************************************************)
(* Solver::apply_constraint, the body applied to one particle.             *)
(***************************************************************************)
\* -v * restitution
Bounce(v) == DivZ((-v) * RestitutionNum, RestitutionDen)

\* the two wall tests of one axis: <<position, velocity, hit>>
ClampAxisNoLower(pos, v, rad, size) ==
    IF pos > size - rad THEN <<size - rad, Bounce(v), TRUE>> ELSE <<pos, v, FALSE>>
ClampAxis(pos, v, rad, size) ==
    LET up == IF pos > size - rad
                THEN <<size - rad, Bounce(v), TRUE>>
                ELSE <<pos, v, FALSE>>
    IN  IF up[1] < rad THEN <<rad, Bounce(up[2]), TRUE>> ELSE up

ApplyConstraintTo(p, w, h) ==
    IF p.nan THEN p
    ELSE LET cx  == ClampAxis(p.x, p.x - p.ox, p.r, w)
             vy0 == IF cx[3] THEN (p.y - p.oy) * Friction ELSE p.y - p.oy
             cy  == ClampAxis(p.y, vy0, p.r, h)
             vx1 == IF cy[3] THEN cx[2] * Friction ELSE cx[2]
         IN  [p EXCEPT !.x = cx[1], !.y = cy[1],
                       !.ox = cx[1] - vx1, !.oy = cy[1] - cy[2]]

(***************************************************************************)
(* Solver::solve_collision on the pair (a, b): <<a', b'>>.                 *)
(* dist = 0 with a positive radius sum makes n = axis / dist = 0/0 = NaN,  *)
(* and both positions NaN.  A NaN position makes dist NaN and the test     *)
(* dist < a.radius + b.radius false.                                       *)
(***************************************************************************)
Overlapping(a, b) ==
    /\ ~a.nan /\ ~b.nan
    /\ Magnitude(a.x - b.x, a.y - b.y) < a.r + b.r

SolveCollision(a, b) ==
    IF ~Overlapping(a, b) THEN <<a, b>>
    ELSE LET dx == a.x - b.x
             dy == a.y - b.y
             dist == Magnitude(dx, dy)
             delta == a.r + b.r - dist
         IN  IF dist = 0 THEN <<NaNObject(a), NaNObject(b)>>
             ELSE <<[a EXCEPT !.x = @ + DivZ(delta * dx, 2 * dist),
                              !.y = @ + DivZ(delta * dy, 2 * dist)],
                    [b EXCEPT !.x = @ - DivZ(delta * dx, 2 * dist),
                              !.y = @ - DivZ(delta * dy, 2 * dist)]>>

(***************************************************************************)
(* Solver::compute_spatial_map.  A cell is <<floor(x/density),             *)
(* floor(y/density)>>; NaN cast to i32 is 0.  Each bucket lists its        *)
(* particles in index order (the loop pushes i = 0, 1, ...).               *)
(***************************************************************************)
CellOf(p, density) ==
    IF p.nan THEN <<0, 0>> ELSE <<p.x \div density, p.y \div density>>

ComputeSpatialMap(ps, density) ==
    LET cells == {CellOf(ps[i], density) : i \in DOMAIN ps}
    IN  [c \in cells |->
            SortedSeq({i \in DOMAIN ps : CellOf(ps[i], density) = c})]

(***************************************************************************)
(* Solver::find_colllisions: the neighbour offsets in loop order (dx outer,*)
(* dy inner, dx < 0 and (dx = 0, dy < 0) skipped), and the cell pairs      *)
(* handed to check_cells_collisions for one cell.                          *)
(***************************************************************************)
Offsets == << <<0, 0>>, <<0, 1>>, <<1, -1>>, <<1, 0>>, <<1, 1>> >>

NeighbourChecks(grid, c) ==
    LET one(k) == LET nc == <<c[1] + Offsets[k][1], c[2] + Offsets[k][2]>>
                  IN  IF nc[1] >= 0 /\ nc[2] >= 0 /\ nc \in DOMAIN grid
                        THEN << <<c, nc>> >> ELSE <<>>
    IN  Flatten([k \in 1..Len(Offsets) |-> one(k)])

\* every cell pair checked, in order, for the cells visited in `order`
AllChecks(grid, order) ==
    Flatten([k \in 1..Len(order) |-> NeighbourChecks(grid, order[k])])

(***************************************************************************)
(* Solver::check_cells_collisions.  One pairwise access: the store is      *)
(* split at mid (split_at_mut), ia indexes the first part and ib the       *)
(* second; aFirst tells which of the two is solve_collision's argument a.  *)
(***************************************************************************)
PairAccess(p1, p2) ==
    IF p1 < p2 THEN [p1 |-> p1, p2 |-> p2, mid |-> p2, ia |-> p1, ib |-> 0, aFirst |-> TRUE]
               ELSE [p1 |-> p1, p2 |-> p2, mid |-> p1, ia |-> p2, ib |-> 0, aFirst |-> FALSE]

\* the accesses of one cell pair: p1 over cell_1, p2 over cell_2, p1 = p2 skipped
CellPairAccessesNoSkip(cell1, cell2) ==
    Flatten([a \in 1..Len(cell1) |->
        [b \in 1..Len(cell2) |-> PairAccess(cell1[a], cell2[b])]])
CellPairAccesses(cell1, cell2) ==
    Flatten([a \in 1..Len(cell1) |->
        Flatten([b \in 1..Len(cell2) |->
            IF cell1[a] = cell2[b] THEN <<>>
            ELSE <<PairAccess(cell1[a], cell2[b])>>])])

\* split_at_mut(mid) panics when mid > len; a[ia] when ia >= mid; b[ib] when
\* mid + ib >= len
AccessInRange(acc, n) ==
    /\ 0 <= acc.mid /\ acc.mid <= n
    /\ 0 <= acc.ia /\ acc.ia < acc.mid
    /\ 0 <= acc.ib /\ acc.mid + acc.ib < n

\* the store indices the two references of an access designate
RefA(acc) == acc.ia
RefB(acc) == acc.mid + acc.ib

\* one access applied to the store
ApplyAccess(ps, acc) ==
    LET first  == IF acc.aFirst THEN RefA(acc) ELSE RefB(acc)
        second == IF acc.aFirst THEN RefB(acc) ELSE RefA(acc)
        res    == SolveCollision(ps[first], ps[second])
    IN  [i \in DOMAIN ps |-> IF i = first THEN res[1]
                             ELSE IF i = second THEN res[2] ELSE ps[i]]

\* the accesses applied in order; stops at the first that would panic
RECURSIVE ApplyAccesses(_, _)
ApplyAccesses(ps, accs) ==
    IF accs = <<>> THEN ps
    ELSE IF ~AccessInRange(Head(accs), StoreLen(ps)) THEN ps
    ELSE ApplyAccesses(ApplyAccess(ps, Head(accs)), Tail(accs))

\* all accesses of a pass, in order
AllAccesses(grid, checks) ==
    Flatten([k \in 1..Len(checks) |->
        CellPairAccesses(grid[checks[k][1]], grid[checks[k][2]])])

(***************************************************************************)
(* The host (main.rs).                                                     *)
(***************************************************************************)
\* (particle_size.powf(1.5) + 1.4) as u32: the largest n with
\* n - 1.4 <= sqrt(size^3), that is 5n - 7 <= 0 or (5n - 7)^2 <= 25 size^3
CellSize(size) ==
    CHOOSE n \in 1..(2 * size * size + 2) :
        /\ (5 * n - 7 <= 0 \/ (5 * n - 7) * (5 * n - 7) <= 25 * size * size * size)
        /\ ~(5 * (n + 1) - 7 <= 0
             \/ (5 * (n + 1) - 7) * (5 * (n + 1) - 7) <= 25 * size * size * size)

\* the radii VerletObject::new is given: particle_size, or
\* |particle_size + k| with k drawn from -variance..variance-1
VarianceRadii(size, variance) ==
    {Abs(size + k) : k \in (-variance)..(variance - 1)}
HostRadii(size, variance) ==
    IF variance # 0 THEN VarianceRadii(size, variance) ELSE {size}

\* the start-up layout: side * side particles, x outer and y inner,
\* at ((x * size) * 2.5 + size, (y * size) * 2.5 + size)
InitialLayout(side, size, radii) ==
    [i \in 0..(side * side - 1) |->
        NewObject(DivZ((i \div side) * size * 5, 2) + size,
                  DivZ((i % side) * size * 5, 2) + size,
                  radii[i])]

\* Solver::apply_arbituary_force
ApplyArbituaryForce(ps, fx, fy) ==
    [i \in DOMAIN ps |->
        IF ps[i].nan THEN ps[i] ELSE [ps[i] EXCEPT !.x = @ + fx, !.y = @ + fy]]

\* Solver::apply_point_arbituary_force; dist = 0 inside the fall-off
\* normalises 0/0 and the position becomes NaN
PointForceOn(p, mx, my, fo) ==
    IF p.nan THEN p
    ELSE LET dx == p.x - mx
             dy == p.y - my
             m  == Magnitude(dx, dy)
         IN  IF ~(m < Abs(fo)) THEN p
             ELSE IF m = 0 THEN NaNObject(p)
             ELSE IF fo > 0
                    THEN [p EXCEPT !.x = @ + DivZ(dx, m), !.y = @ + DivZ(dy, m)]
                    ELSE [p EXCEPT !.x = @ - DivZ(dx, m), !.y = @ - DivZ(dy, m)]

ApplyPointArbituaryForce(ps, mx, my, fo) ==
    [i \in DOMAIN ps |-> PointForceOn(ps[i], mx, my, fo)]

\* the right-button loop: count particles at (mouse_x + i, mouse_y + i)
RECURSIVE PushAll(_, _, _, _, _)
PushAll(ps, mx, my, radii, k) ==
    IF k = Len(radii) THEN ps
    ELSE PushAll(Push(ps, NewObject(mx + k, my + k, radii[k + 1])),
                 mx, my, radii, k + 1)

(***************************************************************************)
(* State.                                                                  *)
(***************************************************************************)
VARIABLES
    particles,      \* the store: Vec<VerletObject>
    width, height,  \* Solver.width, Solver.height
    substeps,       \* Solver.substeps
    gravity,        \* Solver.gravity = (0, gravity)
    particle_size,  \* main: args.particle_size
    size_variance,  \* main: args.variance
    playing,        \* main: playing
    fall_off,       \* main: fall_off
    pc,             \* where the program is: "frame", "resize", "loop", "gravity",
                    \* "integrate", "collide", "constrain", "keys", "panic"
    step,           \* update: the sub-step loop counter
    dt, density,    \* update: its arguments
    entry,          \* the store as it was when update was called
    grid,           \* find_colllisions: the spatial map of the pass just made
    checks,         \* the cell pairs handed to check_cells_collisions, in order
    accesses        \* the pairwise accesses the pass made, in order
                    \* (the three are dropped when the next phase has run)

vars == <<particles, width, height, substeps, gravity, particle_size,
          size_variance, playing, fall_off, pc, step, dt, density,
          entry, grid, checks, accesses>>

solverVars == <<width, height, substeps, gravity>>
configVars == <<particle_size, size_variance>>
passVars   == <<grid, checks, accesses>>

(***************************************************************************)
(* Inputs drawn by the specifications.                                     *)
(***************************************************************************)
ParticleSizes  == {1}                      \* --particle-size
Variances      == {0}                      \* --variance
Gravities      == {4}                      \* --gravity, pixels per frame^2
SubstepChoices == (-1)..MaxSubsteps        \* --substeps, an i32
Sides          == {0, 1}                   \* floor(sqrt(--total))
Moves          == {<<0, 0>>, <<1, 0>>}            \* window displacement / dampening
MousePoints    == {<<1, 1>>, <<3, 1>>}     \* mouse_x, mouse_y
Scrolls        == {-40, 0}                 \* mouse wheel move of one frame
ScreenSizes    == {<<1, 4>>, <<4, 2>>}     \* get_screen_width, get_screen_height

\* the bound host operations are kept within
WithinBounds(p) ==
    \/ p.nan
    \/ /\ Abs(p.x) <= MaxCoord /\ Abs(p.y) <= MaxCoord
       /\ Abs(p.x - p.ox) <= MaxSpeed /\ Abs(p.y - p.oy) <= MaxSpeed

KeptBounded(old, new) ==
    \A i \in DOMAIN new :
        (i \in DOMAIN old /\ new[i] = old[i]) \/ WithinBounds(new[i])

(***************************************************************************)
(* Construction: main up to the frame loop.  Solver::new stores its        *)
(* arguments as given.                                                     *)
(***************************************************************************)
Init ==
    \E size \in ParticleSizes, variance \in Variances, g \in Gravities,
       sub \in SubstepChoices, side \in Sides :
      \E radii \in [0..(side * side - 1) -> HostRadii(size, variance)] :
        /\ side * side <= MaxParticles
        /\ particles = InitialLayout(side, size, radii)
        /\ width = WIDTH /\ height = HEIGHT
        /\ substeps = sub
        /\ gravity = g
        /\ particle_size = size
        /\ size_variance = variance
        /\ playing = TRUE
        /\ fall_off = FallOffInit
        /\ pc = "frame"
        /\ step = 0 /\ dt = 0 /\ density = 0
        /\ entry = <<>>
        /\ grid = <<>> /\ checks = <<>> /\ accesses = <<>>

(***************************************************************************)
(* The frame loop, first part: window move (uniform displacement), right   *)
(* button (spawn), left button (point force).                              *)
(***************************************************************************)
HostInput ==
    /\ pc = "frame"
    /\ \E mv \in Moves, right \in BOOLEAN, left \in BOOLEAN :
       \* the mouse position is used only when a button is down
       \E m \in IF right \/ left THEN MousePoints ELSE {<<0, 0>>} :
        LET count  == IF fall_off < 0 THEN BurstCount ELSE 1
            rset   == IF size_variance # 0 /\ fall_off < 0
                        THEN VarianceRadii(particle_size, size_variance)
                        ELSE {particle_size}
            moved  == IF mv # <<0, 0>>
                        THEN ApplyArbituaryForce(particles, mv[1], mv[2])
                        ELSE particles
        IN  /\ right => StoreLen(particles) + count <= MaxParticles
            /\ \E radii \in IF right THEN [1..count -> rset] ELSE {<<>>} :
                 LET spawned == PushAll(moved, m[1], m[2], radii, 0)
                     forced  == IF left
                                  THEN ApplyPointArbituaryForce(spawned, m[1], m[2], fall_off)
                                  ELSE spawned
                 IN  /\ KeptBounded(particles, forced)
                     /\ particles' = forced
    /\ pc' = "resize"
    /\ UNCHANGED <<solverVars, configVars, playing, fall_off, step, dt,
                   density, entry, passVars>>

(***************************************************************************)
(* The frame loop, second part: scroll, the solver's width and height are  *)
(* overwritten from the window, and update is called when playing.         *)
(***************************************************************************)
HostUpdate(dts) ==
    /\ pc = "resize"
    /\ \E scroll \in Scrolls, size \in ScreenSizes, d \in dts :
        /\ Abs(fall_off + ScrollGain * scroll) <= MaxFallOff
        /\ fall_off' = fall_off + ScrollGain * scroll
        /\ width' = size[1] /\ height' = size[2]
        /\ IF playing
             THEN /\ pc' = "loop"
                  /\ step' = 0
                  /\ dt' = d
                  /\ density' = CellSize(particle_size)
                  /\ entry' = particles
             ELSE /\ pc' = "keys"
                  /\ UNCHANGED <<step, dt, density, entry>>
    /\ UNCHANGED <<particles, substeps, gravity, configVars, playing, passVars>>

\* the rest of the frame: drawing changes nothing, then the P and S keys
Keys ==
    /\ pc = "keys"
    /\ \E keyP \in BOOLEAN, keyS \in BOOLEAN :
         playing' = IF keyS THEN FALSE ELSE IF keyP THEN TRUE ELSE playing
    /\ pc' = "frame"
    /\ UNCHANGED <<particles, solverVars, configVars, fall_off, step, dt,
                   density, entry, passVars>>

(***************************************************************************)
(* Solver::update.                                                         *)
(***************************************************************************)
\* the phase that follows a phase of the loop body
PhaseAfterSwapped(ph) ==
    CASE ph = "gravity"   -> "integrate"
      [] ph = "integrate" -> "constrain"
      [] ph = "constrain" -> "collide"
      [] ph = "collide"   -> "loop"
PhaseAfter(ph) ==
    CASE ph = "gravity"   -> "integrate"
      [] ph = "integrate" -> "collide"
      [] ph = "collide"   -> "constrain"
      [] ph = "constrain" -> "loop"

\* a phase function has returned: update goes on with the next one, and
\* after the last one the iteration is over
Advance(ph) ==
    /\ pc' = PhaseAfter(ph)
    /\ step' = IF PhaseAfter(ph) = "loop" THEN step + 1 ELSE step

\* for _ in 0..self.substeps: one more iteration
SubstepBegin ==
    /\ pc = "loop"
    /\ step < substeps
    /\ pc' = "gravity"
    /\ UNCHANGED <<particles, solverVars, configVars, playing, fall_off,
                   step, dt, density, entry, passVars>>

\* the range is exhausted: update returns
UpdateReturn ==
    /\ pc = "loop"
    /\ ~(step < substeps)
    /\ pc' = "keys"
    /\ step' = 0 /\ dt' = 0 /\ density' = 0
    /\ entry' = <<>>
    /\ UNCHANGED <<particles, solverVars, configVars, playing, fall_off, passVars>>

\* Solver::apply_gravity: par_iter_mut().for_each over the store; the call
\* returns when every particle has been visited
ApplyGravity ==
    /\ pc = "gravity"
    /\ particles' = [i \in DOMAIN particles |-> Accelerate(particles[i], 0, gravity)]
    /\ Advance("gravity")
    /\ UNCHANGED <<solverVars, configVars, playing, fall_off, dt, density,
                   entry, passVars>>

\* Solver::update_positions with dt / substeps
UpdatePositions ==
    /\ pc = "integrate"
    /\ particles' = [i \in DOMAIN particles |->
                        UpdatePosition(particles[i], dt, substeps)]
    /\ Advance("integrate")
    /\ UNCHANGED <<solverVars, configVars, playing, fall_off, dt, density,
                   entry, passVars>>

\* Solver::apply_constraint
ApplyConstraint ==
    /\ pc = "constrain"
    /\ particles' = [i \in DOMAIN particles |->
                        ApplyConstraintTo(particles[i], width, height)]
    /\ Advance("constrain")
    /\ grid' = <<>> /\ checks' = <<>> /\ accesses' = <<>>
    /\ UNCHANGED <<solverVars, configVars, playing, fall_off, dt, density, entry>>

\* Solver::find_colllisions: the map is built, its cells are visited in the
\* HashMap's iteration order (any order), and every access is made in turn.
\* An access out of range panics.
FindColllisions ==
    /\ pc = "collide"
    /\ LET g == ComputeSpatialMap(particles, density)
       IN  \E order \in Orderings(DOMAIN g) :
             LET cs == AllChecks(g, order)
                 as == AllAccesses(g, cs)
             IN  /\ grid' = g
                 /\ checks' = cs
                 /\ accesses' = as
                 /\ particles' = ApplyAccesses(particles, as)
                 /\ IF \A k \in 1..Len(as) : AccessInRange(as[k], StoreLen(particles))
                      THEN Advance("collide")
                      ELSE pc' = "panic" /\ step' = step
    /\ UNCHANGED <<solverVars, configVars, playing, fall_off, dt, density, entry>>

UpdateStep ==
    \/ SubstepBegin
    \/ ApplyGravity
    \/ UpdatePositions
    \/ FindColllisions
    \/ ApplyConstraint
    \/ UpdateReturn

\* the host calls update with dt = 1/60
HostUpdateFrame == HostUpdate({FrameDt})

Next == HostInput \/ HostUpdateFrame \/ Keys \/ UpdateStep

Spec == Init /\ [][Next]_vars

(***************************************************************************)
(* update called with any dt: the frame loop, except that the caller       *)
(* passes dt = 0 or dt = 1/60.                                             *)
(***************************************************************************)
HostUpdateAnyDt == HostUpdate({0, FrameDt})

NextAnyDt == HostInput \/ HostUpdateAnyDt \/ Keys \/ UpdateStep

SpecAnyDt == Init /\ [][NextAnyDt]_vars

(***************************************************************************)
(* One collision pass from any store: find_colllisions as a function of    *)
(* the store and the cell size.  The store holds up to PassParticles       *)
(* particles anywhere on the lattice, with the radii and the cell size of  *)
(* one host configuration.                                                 *)
(***************************************************************************)
PassConfigs == {<<1, 0>>, <<1, 2>>, <<2, 0>>}    \* <<--particle-size, --variance>>
PassXs == (-1)..PassCoord
PassYs == (-1)..0

PassInit ==
    \E cfg \in PassConfigs, n \in 0..PassParticles :
      \E xs \in [0..(n - 1) -> PassXs], ys \in [0..(n - 1) -> PassYs],
         radii \in [0..(n - 1) -> HostRadii(cfg[1], cfg[2])] :
        /\ particles = [i \in 0..(n - 1) |-> NewObject(xs[i], ys[i], radii[i])]
        /\ width = WIDTH /\ height = HEIGHT
        /\ substeps = 1
        /\ gravity = 0
        /\ particle_size = cfg[1]
        /\ size_variance = cfg[2]
        /\ playing = TRUE
        /\ fall_off = FallOffInit
        /\ pc = "collide"
        /\ step = 0 /\ dt = FrameDt /\ density = CellSize(cfg[1])
        /\ entry = <<>>
        /\ grid = <<>> /\ checks = <<>> /\ accesses = <<>>

PassNext == FindColllisions

SpecPass == PassInit /\ [][PassNext]_vars

(***************************************************************************)
(* Properties.                                                             *)
(***************************************************************************)
\* update is running
InUpdate == pc \in {"loop", "gravity", "integrate", "collide", "constrain"}

\* apply_constraint has just run: the end of an iteration of update's loop,
\* which is also the state update returns in when substeps >= 1
AfterConstraint == pc = "loop" /\ step >= 1

\* a collision pass has just been made
PassMade == pc = "constrain"

\* the positions of a store
Positions(ps) == [i \in DOMAIN ps |-> <<ps[i].x, ps[i].y, ps[i].nan>>]

\* C1 (as claimed): after every constraint-enforcement phase every particle
\* lies in [radius, width - radius] x [radius, height - radius], whatever
\* the width, the height and the radius.
C1_InDomainAlways ==
    AfterConstraint =>
        \A i \in DOMAIN particles :
            /\ ~particles[i].nan
            /\ particles[i].r <= particles[i].x
            /\ particles[i].x <= width - particles[i].r
            /\ particles[i].r <= particles[i].y
            /\ particles[i].y <= height - particles[i].r

\* C1 (amended): after every constraint-enforcement phase every particle
\* whose position is not NaN has x >= radius and y >= radius, and has
\* x <= width - radius when width >= 2 radius and y <= height - radius when
\* height >= 2 radius.  (When the domain is narrower than the particle the
\* lower wall wins: the coordinate is left at radius.)
C1_InDomainWhenItFits ==
    AfterConstraint =>
        \A i \in DOMAIN particles :
            ~particles[i].nan =>
                /\ particles[i].r <= particles[i].x
                /\ particles[i].r <= particles[i].y
                /\ (width >= 2 * particles[i].r
                      => particles[i].x <= width - particles[i].r)
                /\ (height >= 2 * particles[i].r
                      => particles[i].y <= height - particles[i].r)

\* C1 witness: a particle was driven past the lower wall of y (gravity),
\* clamped to height - radius and sent back with a reversed velocity, next
\* to a second particle.
C1_Witness ==
    /\ AfterConstraint
    /\ StoreLen(particles) >= 2
    /\ \E i \in DOMAIN particles :
        /\ ~particles[i].nan
        /\ height >= 2 * particles[i].r
        /\ particles[i].y = height - particles[i].r
        /\ particles[i].oy > particles[i].y

\* C2: update runs exactly `substeps` iterations (none when substeps <= 0,
\* the range 0..substeps being empty); every iteration runs apply gravity,
\* integrate, collisions, constraints in that order, each over the whole
\* store before the next starts; an iteration ends with the constraints, so
\* they are the last phase run before update returns.
C2_Step ==
    /\ pc = "resize" => pc' \in {"loop", "keys"}
    /\ (pc = "resize" /\ pc' = "loop") => step' = 0
    /\ pc = "loop" =>
         \/ pc' = "gravity" /\ step < substeps /\ step' = step
         \/ pc' = "keys" /\ step = (IF substeps >= 0 THEN substeps ELSE 0)
    /\ pc = "gravity" =>
         /\ pc' = "integrate" /\ step' = step
         /\ DOMAIN particles' = DOMAIN particles
         /\ \A i \in DOMAIN particles :
              /\ particles'[i].ax = particles[i].ax
              /\ particles'[i].ay = particles[i].ay + gravity
    /\ pc = "integrate" =>
         /\ pc' = "collide" /\ step' = step
         /\ DOMAIN particles' = DOMAIN particles
         /\ \A i \in DOMAIN particles :
              /\ particles'[i].ax = 0 /\ particles'[i].ay = 0
              /\ ~particles[i].nan =>
                   /\ particles'[i].ox = particles[i].x
                   /\ particles'[i].oy = particles[i].y
    /\ pc = "collide" => pc' = "constrain" /\ step' = step
    /\ pc = "constrain" =>
         /\ pc' = "loop" /\ step' = step + 1
         /\ DOMAIN particles' = DOMAIN particles
         /\ \A i \in DOMAIN particles :
              ~particles[i].nan =>
                  /\ particles'[i].x >= particles[i].r
                  /\ particles'[i].y >= particles[i].r
    /\ pc' = "loop" => pc \in {"resize", "constrain"}
    /\ pc' = "gravity" => pc = "loop"
    /\ pc' = "integrate" => pc = "gravity"
    /\ pc' = "collide" => pc = "integrate"
    /\ pc' = "constrain" => pc = "collide"
C2_PhaseOrder == [][C2_Step]_vars

\* C2 witness: update is about to return after two iterations over a store
\* of two particles.
C2_Witness ==
    /\ pc = "loop" /\ substeps = 2 /\ step = 2
    /\ StoreLen(particles) >= 2

\* the store is at rest (current = old), inside the domain, and no two
\* particles overlap
Settled(ps, w, h) ==
    /\ \A i \in DOMAIN ps :
        /\ ~ps[i].nan
        /\ ps[i].x = ps[i].ox /\ ps[i].y = ps[i].oy
        /\ ps[i].r <= ps[i].x /\ ps[i].x <= w - ps[i].r
        /\ ps[i].r <= ps[i].y /\ ps[i].y <= h - ps[i].r
    /\ \A i, j \in DOMAIN ps : i # j => ~Overlapping(ps[i], ps[j])

\* C3 (as claimed): update with dt = 0 returns with every position_current
\* as it was at the call, for any store and any sub-step count.
C3_UnchangedAtDtZero ==
    (pc = "loop" /\ ~(step < substeps) /\ dt = 0)
        => Positions(particles) = Positions(entry)

\* C3 (amended): when update is called with dt = 0 on a store in which
\* every particle is at rest (position_current = position_old) and inside
\* the domain and no two particles overlap, every position_current stays
\* as it was at the call, through every phase of every sub-step.
C3_UnchangedWhenSettled ==
    (InUpdate /\ dt = 0 /\ Settled(entry, width, height))
        => Positions(particles) = Positions(entry)

\* C3 witness: update returns from a call with dt = 0 on two settled
\* particles, after at least one sub-step under a non-zero gravity.
C3_Witness ==
    /\ pc = "loop" /\ dt = 0 /\ substeps >= 1 /\ step = substeps
    /\ gravity # 0
    /\ StoreLen(entry) >= 2
    /\ Settled(entry, width, height)

\* C4: the narrow phase never divides by zero: when it is applied to two
\* coincident particles with a positive radius sum no NaN enters the store.
\* (Stated for a pass over a store that holds no NaN.)
C4_NoNaNFromNarrowPhase ==
    \A i \in DOMAIN particles : ~particles[i].nan

\* C5: no Solver has a sub-step count below 1, so update never runs with
\* one.
C5_SubstepsAtLeastOne == InUpdate => substeps >= 1

\* two cells are the same or neighbours
Adjacent(c1, c2) == Abs(c1[1] - c2[1]) <= 1 /\ Abs(c1[2] - c2[2]) <= 1

\* how often the unordered cell pair {c1, c2} was checked
TimesChecked(c1, c2) ==
    Cardinality({k \in 1..Len(checks) : {checks[k][1], checks[k][2]} = {c1, c2}})

\* C6: in one pass every unordered pair of occupied cells that are the same
\* or adjacent is handed to check_cells_collisions exactly once, negative
\* cell coordinates included.
C6_CellPairsOnce ==
    PassMade =>
        \A c1, c2 \in DOMAIN grid :
            Adjacent(c1, c2) => TimesChecked(c1, c2) = 1

\* C7: in one pass solve_collision is never invoked for i = j and never
\* more than once for the same unordered pair of particles.
C7_NarrowOncePerPair ==
    /\ \A k \in 1..Len(accesses) : accesses[k].p1 # accesses[k].p2
    /\ \A k, l \in 1..Len(accesses) :
         k # l => {accesses[k].p1, accesses[k].p2} # {accesses[l].p1, accesses[l].p2}

\* C8: every pairwise access of a pass is between two distinct indices of
\* the store; the store is split at the higher one, the lower one indexes
\* the first part and the higher one is element 0 of the second, so the two
\* references designate different particles and nothing is out of range.
C8_AccessesDisjointInRange ==
    /\ pc # "panic"
    /\ \A k \in 1..Len(accesses) :
        LET acc == accesses[k]
            lo  == IF acc.p1 < acc.p2 THEN acc.p1 ELSE acc.p2
            hi  == IF acc.p1 < acc.p2 THEN acc.p2 ELSE acc.p1
        IN  /\ acc.p1 \in DOMAIN particles /\ acc.p2 \in DOMAIN particles
            /\ acc.p1 # acc.p2
            /\ acc.mid = hi /\ acc.ia = lo /\ acc.ib = 0
            /\ AccessInRange(acc, StoreLen(particles))
            /\ RefA(acc) # RefB(acc)
            /\ {RefA(acc), RefB(acc)} = {acc.p1, acc.p2}

\* C8 witness: a pass made accesses in both index orders, on a store of at
\* least two particles.
C8_Witness ==
    /\ PassMade
    /\ \E k \in 1..Len(accesses) : accesses[k].p1 < accesses[k].p2
    /\ \E k \in 1..Len(accesses) : accesses[k].p1 > accesses[k].p2

\* C9: every particle's acceleration is zero at the start of every sub-step
\* and when update has returned, whatever the host did in between.
C9_AccelerationZero ==
    pc \in {"frame", "resize", "keys", "loop", "gravity"} =>
        \A i \in DOMAIN particles :
            particles[i].ax = 0 /\ particles[i].ay = 0

\* C9 witness: the second sub-step of an update starts, under a non-zero
\* gravity, with a particle in the store.
C9_Witness ==
    /\ pc = "gravity" /\ step >= 1
    /\ gravity # 0
    /\ StoreLen(particles) >= 1

\* C10: every two distinct particles whose centres are closer than the sum
\* of their radii when the grid is built are handed to solve_collision at
\* least once by the pass.
C10_Step ==
    pc = "collide" =>
        \A i, j \in DOMAIN particles :
            (i # j /\ Overlapping(particles[i], particles[j])) =>
                \E k \in 1..Len(accesses') :
                    {accesses'[k].p1, accesses'[k].p2} = {i, j}
C10_BroadPhaseComplete == [][C10_Step]_vars

=============================================================================
